---- MODULE Spec2Model ----
(***************************************************************************)
(* The Dixon-Coles estimator of the notebook "Predicting Korfball Results  *)
(* with Statistical Modelling - Dixon-Coles and Time-Weighting":           *)
(* rho_correction, dc_log_like and solve_parameters with its nested        *)
(* objective estimate_parameters.                                          *)
(*                                                                         *)
(* Numbers.  A real parameter value v is held as the integer v * Unit, so  *)
(* the grid step is 1/Unit.  rho_correction is polynomial and is computed  *)
(* exactly on integers.  A per-match log-likelihood is transcendental      *)
(* (exp, log, Poisson pmf) and is held in closed form: the record of the   *)
(* exact quantities that determine it.                                     *)
(*                                                                         *)
(* Team names are strings; TeamNames lists the universe in sort order.     *)
(*                                                                         *)
(* scipy's minimize is a library outside the repository.  It is modelled   *)
(* by its contract: it evaluates the objective at the start point and at   *)
(* every iterate, an exception of the objective propagates to the caller,  *)
(* success is reported only at a point that satisfies the constraints,     *)
(* and the iteration cap ends the search with success = False.  Which      *)
(* iterate comes next is a nondeterministic choice.                        *)
(***************************************************************************)
EXTENDS Integers, Sequences, FiniteSets, TLC

VARIABLES
    pc,          \* "idle" | "minimize" | "returned" | "raised": where the call of solve_parameters is
    dataset,     \* argument: the sequence of match rows
    debug,       \* argument
    init_given,  \* whether the caller passed init_vals (FALSE: init_vals=None)
    init_vals,   \* the local init_vals once lines 350-355 have run
    options,     \* argument: [maxiter |-> ...]
    constraints, \* argument: the sequence of constraint records
    teams,       \* local: np.sort(dataset['Home Team'].unique())
    n_teams,     \* local
    x,           \* minimize: the current iterate
    nit,         \* minimize: iterations done
    nfev,        \* minimize: objective evaluations done
    fun,         \* minimize: the objective's last outcome
    opt_output,  \* local: what minimize returned
    result,      \* what solve_parameters returned
    exc,         \* the exception that left solve_parameters, "none" if none
    rng,         \* the state of numpy's global generator np.random
    draws,       \* variates this call has drawn from np.random
    tau_in,      \* the arguments of the last direct call of rho_correction
    tau_out      \* what that call returned

solver_vars == <<pc, dataset, debug, init_given, init_vals, options, constraints,
                 teams, n_teams, x, nit, nfev, fun, opt_output, result, exc, rng, draws>>
tau_vars == <<tau_in, tau_out>>
vars == <<pc, dataset, debug, init_given, init_vals, options, constraints,
          teams, n_teams, x, nit, nfev, fun, opt_output, result, exc, rng, draws,
          tau_in, tau_out>>

(***************************************************************************)
(* Bounds of the model.                                                    *)
(***************************************************************************)
Unit == 2
MaxRows == 2
MaxIter == 2
RngPeriod == 3
MaxTauScore == 3
MaxRate == 3
MaxRho == 2

TeamNames == <<"A", "B">>
ScoreVals == {0 - 1, 1}

(***************************************************************************)
(* Program constants.                                                      *)
(***************************************************************************)
ConstraintSlice == 20
ConstraintTarget == 20
DefaultMaxIter == 100

(***************************************************************************)
(* Python and numpy helpers.                                               *)
(***************************************************************************)
Min(a, b) == IF a < b THEN a ELSE b
Max(a, b) == IF a > b THEN a ELSE b

RECURSIVE SumSeq(_)
SumSeq(s) == IF s = <<>> THEN 0 ELSE Head(s) + SumSeq(Tail(s))

\* s[lo:hi], 0-based and half-open, both ends clamped to the sequence
Slice(s, lo, hi) ==
    LET l == Min(Max(lo, 0), Len(s))
        h == Min(Max(hi, 0), Len(s))
    IN  IF h <= l THEN <<>> ELSE SubSeq(s, l + 1, h)

\* s[-k:]
LastK(s, k) == Slice(s, Len(s) - k, Len(s))

\* dict(zip(keys, vals)): zip stops at the shorter, a repeated key keeps its last value
DictZip(keys, vals) ==
    LET m == Min(Len(keys), Len(vals))
    IN  [k \in {keys[i] : i \in 1..m} |->
            vals[CHOOSE i \in 1..m : keys[i] = k /\ \A j \in 1..m : keys[j] = k => j <= i]]

Rank(t) == CHOOSE i \in 1..Len(TeamNames) : TeamNames[i] = t

\* np.sort of a set of names
RECURSIVE SortNames(_)
SortNames(S) ==
    IF S = {} THEN <<>>
    ELSE LET m == CHOOSE t \in S : \A u \in S : Rank(t) <= Rank(u)
         IN  <<m>> \o SortNames(S \ {m})

\* dataset[col].unique()
Unique(ds, col) == {ds[i][col] : i \in 1..Len(ds)}

Row(h, hs, a, as) ==
    ("Home Team" :> h) @@ ("Home Score" :> hs) @@ ("Away Team" :> a) @@ ("Away Score" :> as)

(***************************************************************************)
(* rho_correction                                                          *)
(***************************************************************************)
RhoCorrectionSwapped(x_, y_, lambda_x, mu_y, rho) ==
    IF x_ = 0 /\ y_ = 0 THEN 1 - (lambda_x * mu_y * rho)
    ELSE IF x_ = 1 /\ y_ = 0 THEN 1 + (lambda_x * rho)
    ELSE IF x_ = 0 /\ y_ = 1 THEN 1 + (mu_y * rho)
    ELSE IF x_ = 1 /\ y_ = 1 THEN 1 - rho
    ELSE 1

RhoCorrectionLambdaOnly(x_, y_, lambda_x, mu_y, rho) ==
    IF x_ = 0 /\ y_ = 0 THEN 1 - (lambda_x * mu_y * rho)
    ELSE IF x_ = 0 /\ y_ = 1 THEN 1 + (lambda_x * rho)
    ELSE IF x_ = 1 /\ y_ = 0 THEN 1 + (lambda_x * rho)
    ELSE IF x_ = 1 /\ y_ = 1 THEN 1 - rho
    ELSE 1

\* tau as the notebook's text writes it (the cases of the displayed formula, in
\* its order): 1 + lambda rho at x = 1, y = 0 and 1 + mu rho at x = 0, y = 1
NotebookTau(x_, y_, lambda, mu, rho) ==
    CASE x_ = 0 /\ y_ = 0 -> 1 - lambda * mu * rho
      [] x_ = 1 /\ y_ = 0 -> 1 + lambda * rho
      [] x_ = 0 /\ y_ = 1 -> 1 + mu * rho
      [] x_ = 1 /\ y_ = 1 -> 1 - rho
      [] OTHER -> 1

RhoCorrection(x_, y_, lambda_x, mu_y, rho) ==
    IF x_ = 0 /\ y_ = 0 THEN 1 - (lambda_x * mu_y * rho)
    ELSE IF x_ = 0 /\ y_ = 1 THEN 1 + (lambda_x * rho)
    ELSE IF x_ = 1 /\ y_ = 0 THEN 1 + (mu_y * rho)
    ELSE IF x_ = 1 /\ y_ = 1 THEN 1 - rho
    ELSE 1

(***************************************************************************)
(* dc_log_like: log(tau(x, y, lambda, mu, rho)) + log(pmf(x; lambda))      *)
(* + log(pmf(y; mu)) with lambda = exp(alpha_x + beta_y + gamma) and       *)
(* mu = exp(alpha_y + beta_x), in closed form: the scores, the two         *)
(* log-rates (in units of 1/Unit) and rho determine the value.             *)
(***************************************************************************)
DcLogLike(x_, y_, alpha_x, beta_x, alpha_y, beta_y, rho, gamma) ==
    [x |-> x_, y |-> y_,
     log_lambda |-> alpha_x + beta_y + gamma,
     log_mu |-> alpha_y + beta_x,
     rho |-> rho]

(***************************************************************************)
(* estimate_parameters, the objective (lines 361-369)                      *)
(***************************************************************************)
\* row[key] for a row that dataset.itertuples() yields.  itertuples yields
\* namedtuples; indexing a tuple with a str raises TypeError.
RowGetItem(row, key) == [ok |-> FALSE, exc |-> "TypeError"]

\* One element of the list log_like.  Python evaluates the arguments of
\* dc_log_like left to right; the first exception ends the evaluation.
LogLikeOfRow(row, score_coefs, defend_coefs, rho, gamma) ==
    LET hs == RowGetItem(row, "Home Score")
        as == RowGetItem(row, "Away Score")
        ht == RowGetItem(row, "Home Team")
        at == RowGetItem(row, "Away Team")
    IN  IF ~hs.ok THEN [ok |-> FALSE, exc |-> hs.exc]
        ELSE IF ~as.ok THEN [ok |-> FALSE, exc |-> as.exc]
        ELSE IF ~ht.ok THEN [ok |-> FALSE, exc |-> ht.exc]
        ELSE IF ht.val \notin DOMAIN score_coefs THEN [ok |-> FALSE, exc |-> "KeyError"]
        ELSE IF ~at.ok THEN [ok |-> FALSE, exc |-> at.exc]
        ELSE IF at.val \notin DOMAIN score_coefs THEN [ok |-> FALSE, exc |-> "KeyError"]
        ELSE [ok |-> TRUE,
              val |-> DcLogLike(hs.val, as.val,
                                score_coefs[ht.val], defend_coefs[ht.val],
                                score_coefs[at.val], defend_coefs[at.val], rho, gamma)]

\* The outcome of one evaluation: [kind |-> "value", log_like |-> the list whose
\* negated sum is returned] or [kind |-> "raise", exc |-> the exception].
\* score_coefs = dict(zip(teams, params[:n_teams]))
ScoreCoefs(teams_, n, params) == DictZip(teams_, Slice(params, 0, n))

\* defend_coefs = dict(zip(teams, params[n_teams: (2*n_teams)]))
DefendCoefs(teams_, n, params) == DictZip(teams_, Slice(params, n, 2 * n))

EstimateParameters(teams_, n, ds, params) ==
    LET score_coefs == ScoreCoefs(teams_, n, params)
        defend_coefs == DefendCoefs(teams_, n, params)
        tail == LastK(params, 2)
    IN  IF Len(tail) # 2 THEN [kind |-> "raise", exc |-> "ValueError"]
        ELSE LET rho == tail[1]
                 gamma == tail[2]
                 ll == [i \in 1..Len(ds) |->
                           LogLikeOfRow(ds[i], score_coefs, defend_coefs, rho, gamma)]
                 bad == {i \in 1..Len(ds) : ~ll[i].ok}
             IN  IF bad # {}
                 THEN [kind |-> "raise",
                       exc |-> ll[CHOOSE i \in bad : \A j \in bad : i <= j].exc]
                 ELSE [kind |-> "value",
                       log_like |-> [i \in 1..Len(ds) |-> ll[i].val]]

(***************************************************************************)
(* The constraints argument (line 343)                                     *)
(***************************************************************************)
\* {'type': 'eq', 'fun': lambda x: sum(x[:20])-20}
DefaultConstraints ==
    << [type |-> "eq", slice |-> ConstraintSlice, target |-> ConstraintTarget] >>

\* c['fun'](v)
ConstraintFun(c, v) == SumSeq(Slice(v, 0, c.slice)) - c.target * Unit

Feasible(cons, v) == \A i \in 1..Len(cons) : ConstraintFun(cons[i], v) = 0

DefaultOptions == [disp |-> TRUE, maxiter |-> DefaultMaxIter]

(***************************************************************************)
(* np.random, the global generator (lines 352-353)                         *)
(***************************************************************************)
RngAdvance(s, k) == (s + k) % RngPeriod

\* the variate in [0, 1) the generator yields in state s
RngUniform01(s) == s % Unit

\* np.random.uniform(low, high, size) from state s: low + (high - low) * u
RandomUniform(low, high, size, s) ==
    [i \in 1..size |-> low + ((high - low) * RngUniform01(RngAdvance(s, i - 1))) \div Unit]

\* the generator's state after lines 350-355: with init_vals given nothing is drawn,
\* otherwise n attack and n defence variates are
RngAfterInitAlwaysDraws(given, n, s) == RngAdvance(s, 2 * n)

RngAfterInit(given, n, s) == IF given THEN s ELSE RngAdvance(s, 2 * n)

\* lines 352-355
RandomInitVals(n, s) ==
    RandomUniform(0, Unit, n, s) \o RandomUniform(0, 0 - Unit, n, RngAdvance(s, n))
        \o <<0, Unit>>

(***************************************************************************)
(* The value solve_parameters returns (lines 372-379)                      *)
(***************************************************************************)
ParamNames(teams_) ==
    [i \in 1..Len(teams_) |-> "attack_" \o teams_[i]]
        \o [i \in 1..Len(teams_) |-> "defence_" \o teams_[i]]
        \o <<"rho", "home_adv">>

ReturnValueAlwaysOptOutput(dbg, teams_, out) == out

ReturnValue(dbg, teams_, out) ==
    IF dbg THEN out
    ELSE [kind |-> "dict", items |-> DictZip(ParamNames(teams_), out.x)]

NoResult == [kind |-> "none"]
NoFun == [kind |-> "none"]

(***************************************************************************)
(* The inputs the model explores                                           *)
(***************************************************************************)
Teams == {TeamNames[i] : i \in 1..Len(TeamNames)}
Rows == {Row(h, hs, a, as) : h \in Teams, hs \in ScoreVals, a \in Teams, as \in ScoreVals}
Datasets == UNION {[1..k -> Rows] : k \in 0..MaxRows}

\* caller-supplied start vectors: every entry 0, or every entry 1.0
ConstVector(len, v) == [i \in 1..len |-> v]

OptionChoices == {DefaultOptions} \cup {[disp |-> TRUE, maxiter |-> m] : m \in 1..MaxIter}
ConstraintChoices == {DefaultConstraints, <<>>}

(***************************************************************************)
(* Init                                                                    *)
(***************************************************************************)
NoTau == [called |-> FALSE]

IdleLocals ==
    /\ pc = "idle"
    /\ dataset = <<>>
    /\ debug = FALSE
    /\ init_given = FALSE
    /\ init_vals = <<>>
    /\ options = DefaultOptions
    /\ constraints = DefaultConstraints
    /\ teams = <<>>
    /\ n_teams = 0
    /\ x = <<>>
    /\ nit = 0
    /\ nfev = 0
    /\ fun = NoFun
    /\ opt_output = NoResult
    /\ result = NoResult
    /\ exc = "none"
    /\ draws = 0

Init ==
    /\ IdleLocals
    /\ rng \in 0..(RngPeriod - 1)
    /\ tau_in = NoTau
    /\ tau_out = 0

(***************************************************************************)
(* solve_parameters, lines 344-355: the roster, the validation and the     *)
(* start vector, up to the call of minimize.                               *)
(***************************************************************************)
TeamsMatchByCount(teams_, away_teams) == Len(teams_) = Len(away_teams)

\* np.array_equal(teams, away_teams)
TeamsMatch(teams_, away_teams) == teams_ = away_teams

SolveCall(ds, dbg, given, iv, opts, cons) ==
    /\ pc = "idle"
    /\ dataset' = ds
    /\ debug' = dbg
    /\ init_given' = given
    /\ options' = opts
    /\ constraints' = cons
    /\ teams' = SortNames(Unique(ds, "Home Team"))
    /\ nit' = 0
    /\ nfev' = 0
    /\ fun' = NoFun
    /\ opt_output' = NoResult
    /\ result' = NoResult
    /\ LET away_teams == SortNames(Unique(ds, "Away Team"))
           n == Len(teams')
       IN  IF ~TeamsMatch(teams', away_teams)
           THEN /\ pc' = "raised"
                /\ exc' = "ValueError"
                /\ n_teams' = 0
                /\ init_vals' = IF given THEN iv ELSE <<>>
                /\ x' = <<>>
                /\ draws' = 0
                /\ rng' = rng
           ELSE /\ pc' = "minimize"
                /\ exc' = "none"
                /\ n_teams' = n
                /\ init_vals' = IF given THEN iv ELSE RandomInitVals(n, rng)
                /\ x' = init_vals'
                /\ draws' = IF given THEN 0 ELSE 2 * n
                /\ rng' = RngAfterInit(given, n, rng)
    /\ UNCHANGED tau_vars

Solve ==
    /\ pc = "idle"
    /\ \E ds \in Datasets, dbg \in BOOLEAN, opts \in OptionChoices, cons \in ConstraintChoices :
          LET len == 2 * Cardinality(Unique(ds, "Home Team")) + 2
          IN  \/ SolveCall(ds, dbg, FALSE, <<>>, opts, cons)
              \/ \E v \in {0, Unit} : SolveCall(ds, dbg, TRUE, ConstVector(len, v), opts, cons)

(***************************************************************************)
(* minimize(estimate_parameters, init_vals, options=..., constraints=...)  *)
(* and the return (lines 371-379)                                          *)
(***************************************************************************)
OptimizeResult(success, status) ==
    [kind |-> "OptimizeResult", x |-> x, success |-> success, status |-> status,
     nit |-> nit, nfev |-> nfev, fun |-> fun]

\* the objective is evaluated at v; its exception leaves minimize and solve_parameters
Evaluate(v) ==
    LET out == EstimateParameters(teams, n_teams, dataset, v)
    IN  /\ fun' = out
        /\ nfev' = nfev + 1
        /\ IF out.kind = "raise"
           THEN /\ pc' = "raised"
                /\ exc' = out.exc
           ELSE /\ pc' = "minimize"
                /\ exc' = "none"

\* the step onto the first constraint's plane: the deficit spread over the entries it sums
Project(cons, v) ==
    IF cons = <<>> \/ Slice(v, 0, cons[1].slice) = <<>> THEN v
    ELSE LET k == Len(Slice(v, 0, cons[1].slice))
             deficit == 0 - ConstraintFun(cons[1], v)
         IN  [i \in 1..Len(v) |->
                 IF i <= k
                 THEN v[i] + (deficit \div k) + (IF i <= deficit % k THEN 1 ELSE 0)
                 ELSE v[i]]

\* the points an iteration may move to: one grid step along one coordinate, inside
\* the box [-1, 1], or the step onto the constraint
Moves(cons, v) ==
    {w \in {[v EXCEPT ![i] = v[i] + d] : i \in 1..Len(v), d \in {0 - 1, 1}} :
        \A i \in 1..Len(w) : w[i] = v[i] \/ (0 - Unit <= w[i] /\ w[i] <= Unit)}
        \cup {Project(cons, v)}

MinimizeStart ==
    /\ pc = "minimize"
    /\ nfev = 0
    /\ Evaluate(x)
    /\ UNCHANGED <<dataset, debug, init_given, init_vals, options, constraints,
                   teams, n_teams, x, nit, opt_output, result, rng, draws>>
    /\ UNCHANGED tau_vars

MinimizeIterate ==
    /\ pc = "minimize"
    /\ nfev > 0
    /\ nit < options.maxiter
    /\ \E w \in Moves(constraints, x) :
          /\ x' = w
          /\ Evaluate(w)
    /\ nit' = nit + 1
    /\ UNCHANGED <<dataset, debug, init_given, init_vals, options, constraints,
                   teams, n_teams, opt_output, result, rng, draws>>
    /\ UNCHANGED tau_vars

\* minimize returns opt_output; lines 372-379 return it or the dict built from it
Return(success, status) ==
    /\ opt_output' = OptimizeResult(success, status)
    /\ result' = ReturnValue(debug, teams, opt_output')
    /\ pc' = "returned"
    /\ UNCHANGED <<dataset, debug, init_given, init_vals, options, constraints,
                   teams, n_teams, x, nit, nfev, fun, exc, rng, draws>>
    /\ UNCHANGED tau_vars

MinimizeConverge ==
    /\ pc = "minimize"
    /\ nfev > 0
    /\ Feasible(constraints, x)
    /\ Return(TRUE, 0)

\* "Iteration limit reached" (status 9)
MinimizeCap ==
    /\ pc = "minimize"
    /\ nfev > 0
    /\ nit >= options.maxiter
    /\ Return(FALSE, 9)

\* the call is over: its locals are gone, np.random keeps its state
Finish ==
    /\ pc \in {"returned", "raised"}
    /\ pc' = "idle"
    /\ dataset' = <<>>
    /\ debug' = FALSE
    /\ init_given' = FALSE
    /\ init_vals' = <<>>
    /\ options' = DefaultOptions
    /\ constraints' = DefaultConstraints
    /\ teams' = <<>>
    /\ n_teams' = 0
    /\ x' = <<>>
    /\ nit' = 0
    /\ nfev' = 0
    /\ fun' = NoFun
    /\ opt_output' = NoResult
    /\ result' = NoResult
    /\ exc' = "none"
    /\ draws' = 0
    /\ UNCHANGED rng
    /\ UNCHANGED tau_vars

Next ==
    \/ Solve
    \/ MinimizeStart
    \/ MinimizeIterate
    \/ MinimizeConverge
    \/ MinimizeCap
    \/ Finish

Spec == Init /\ [][Next]_vars

(***************************************************************************)
(* Direct calls of rho_correction                                          *)
(***************************************************************************)
TauInit ==
    /\ IdleLocals
    /\ rng = 0
    /\ tau_in = NoTau
    /\ tau_out = 0

TauCall ==
    \E x_ \in 0..MaxTauScore, y_ \in 0..MaxTauScore, l \in 1..MaxRate,
       m \in 1..MaxRate, r \in (0 - MaxRho)..MaxRho :
        /\ tau_in' = [called |-> TRUE, x |-> x_, y |-> y_, lambda_x |-> l, mu_y |-> m, rho |-> r]
        /\ tau_out' = RhoCorrection(x_, y_, l, m, r)
        /\ UNCHANGED solver_vars

TauNext == TauCall

SpecTau == TauInit /\ [][TauNext]_vars

(***************************************************************************)
(* Properties                                                              *)
(***************************************************************************)
Called == pc # "idle"
Finished == pc \in {"returned", "raised"}
\* the dataset passes the check of lines 344-348
RosterValid == Unique(dataset, "Home Team") = Unique(dataset, "Away Team")

HasNegativeScore(ds) ==
    \E i \in 1..Len(ds) : ds[i]["Home Score"] < 0 \/ ds[i]["Away Score"] < 0

\* a valid dataset: every team appears at home and away, no team plays itself and
\* every score is a non-negative integer
DatasetValid ==
    /\ RosterValid
    /\ ~HasNegativeScore(dataset)
    /\ \A i \in 1..Len(dataset) : dataset[i]["Home Team"] # dataset[i]["Away Team"]

C2_RosterMismatchRaisesFirst ==
    (Called /\ ~RosterValid) =>
        /\ pc = "raised"
        /\ exc = "ValueError"
        /\ draws = 0
        /\ ~init_given => init_vals = <<>>
        /\ nfev = 0
        /\ fun = NoFun
        /\ opt_output = NoResult
        /\ result = NoResult

\* the validation error of a call that left init_vals to the random initialisation
C2_Witness ==
    /\ pc = "raised"
    /\ exc = "ValueError"
    /\ ~RosterValid
    /\ ~init_given
    /\ dataset # <<>>

\* C3: with n >= 1 teams, the default constraint handed to the optimizer holds at a
\* vector exactly when its n attack entries sum to n (mean attack strength 1).
C3_DefaultConstraintIsMeanAttack ==
    (pc = "minimize" /\ DatasetValid /\ constraints = DefaultConstraints /\ n_teams >= 1) =>
        (Feasible(constraints, x) <=> SumSeq(Slice(x, 0, n_teams)) = n_teams * Unit)

\* C4: a call on a valid dataset returns the mapping with exactly the keys
\* attack_<t_i>, defence_<t_i>, rho, home_adv, holding v[i], v[n+i], v[2n], v[2n+1] of
\* the optimizer's final vector v, the positions the objective reads as team t_i's
\* attack and defence, rho and gamma.
C4_ConsistentIndexing ==
    (Finished /\ DatasetValid /\ ~debug) =>
        /\ pc = "returned"
        /\ result.kind = "dict"
        /\ LET v == opt_output.x
               n == n_teams
           IN  /\ Len(v) = 2 * n + 2
               /\ DOMAIN result.items =
                      {"attack_" \o teams[i] : i \in 1..n}
                          \cup {"defence_" \o teams[i] : i \in 1..n}
                          \cup {"rho", "home_adv"}
               /\ \A i \in 1..n :
                      /\ result.items["attack_" \o teams[i]] = v[i]
                      /\ result.items["defence_" \o teams[i]] = v[n + i]
                      /\ ScoreCoefs(teams, n, v)[teams[i]] = v[i]
                      /\ DefendCoefs(teams, n, v)[teams[i]] = v[n + i]
               /\ result.items["rho"] = v[2 * n + 1]
               /\ result.items["home_adv"] = v[2 * n + 2]
               /\ LastK(v, 2) = <<v[2 * n + 1], v[2 * n + 2]>>

\* whether a returned value tells the caller that the search did not converge
ReportsNotConverged(r) ==
    \/ /\ r.kind = "OptimizeResult"
       /\ r.success = FALSE
       /\ r.nit = opt_output.nit
    \/ /\ r.kind = "dict"
       /\ "converged" \in DOMAIN r.items
       /\ r.items["converged"] = FALSE

C6_NegativeScoreRaisesFirst ==
    (Called /\ HasNegativeScore(dataset)) =>
        /\ pc = "raised"
        /\ exc = "ValueError"
        /\ nfev = 0
        /\ result = NoResult

\* what finiteness of a closed-form term requires: a Poisson pmf is 0 at a negative
\* count, and tau at (1,1) is 1 - rho
TermFinite(t) ==
    /\ t.x >= 0
    /\ t.y >= 0
    /\ (t.x = 1 /\ t.y = 1) => t.rho < Unit

\* C7: every evaluation of the objective hands the optimizer a finite number, never
\* an exception or an undefined or infinite value.
C7_ObjectiveAlwaysFinite ==
    (nfev > 0 /\ DatasetValid) =>
        /\ fun.kind = "value"
        /\ \A i \in 1..Len(fun.log_like) : TermFinite(fun.log_like[i])

\* -sum(a) <= -sum(b) for two outcomes in closed form: equal lists have equal sums
ObjectiveLeq(a, b) ==
    /\ a.kind = "value"
    /\ b.kind = "value"
    /\ a.log_like = b.log_like

\* C8: a call on a valid dataset returns a vector at which the objective is less than
\* or equal to its value at the start vector, whatever the start vector.
C8_ResultNoWorseThanStart ==
    (Finished /\ DatasetValid) =>
        /\ pc = "returned"
        /\ ObjectiveLeq(EstimateParameters(teams, n_teams, dataset, opt_output.x),
                        EstimateParameters(teams, n_teams, dataset, init_vals))

\* the unweighted list of per-match log-likelihoods at vector v: every weight is 1
UnweightedLogLike(ds, teams_, v) ==
    LET n == Len(teams_)
    IN  [i \in 1..Len(ds) |->
            DcLogLike(ds[i]["Home Score"], ds[i]["Away Score"],
                      ScoreCoefs(teams_, n, v)[ds[i]["Home Team"]],
                      DefendCoefs(teams_, n, v)[ds[i]["Home Team"]],
                      ScoreCoefs(teams_, n, v)[ds[i]["Away Team"]],
                      DefendCoefs(teams_, n, v)[ds[i]["Away Team"]],
                      v[2 * n + 1], v[2 * n + 2])]

\* C9: the objective is the negated sum of the per-match contributions, each times
\* its time-decay weight; no decay rate is passed (xi = 0), so every weight is 1 and
\* the value is the unweighted negative log-likelihood.
C9_UnweightedAtZeroDecay ==
    (nfev > 0 /\ DatasetValid) =>
        /\ fun.kind = "value"
        /\ fun.log_like = UnweightedLogLike(dataset, teams, x)

\* C11, as claimed: no step of a call of solve_parameters changes state that outlives
\* the call, also when init_vals is omitted: np.random is left as it was, and the
\* dataset, the options and the constraints passed in are not changed.
C11_NoStateOutlivesCall ==
    [][/\ rng' = rng
       /\ (Called /\ pc' # "idle") =>
              (dataset' = dataset /\ options' = options /\ constraints' = constraints)]_vars

\* C11, amended: a call with init_vals given neither reads nor writes state that
\* outlives it; a call with init_vals omitted draws its 2n start values from the
\* global generator np.random and leaves it advanced by 2n variates, so a later call
\* with init_vals omitted starts from another generator state.  No other step
\* touches np.random, and the dataset, the options and the constraints passed in
\* are left unchanged.
C11_OnlyRandomInitTouchesGenerator ==
    [][/\ (rng' # rng) => (pc = "idle" /\ pc' = "minimize" /\ ~init_given')
       /\ (pc = "idle" /\ pc' # "idle") =>
              /\ rng' = (IF init_given' THEN rng ELSE RngAdvance(rng, 2 * n_teams'))
              /\ draws' = (IF init_given' \/ pc' = "raised" THEN 0 ELSE 2 * n_teams')
       /\ (Called /\ pc' # "idle") =>
              (dataset' = dataset /\ options' = options /\ constraints' = constraints)]_vars

\* a call that left init_vals out has drawn its start vector from np.random
C11_Witness ==
    /\ pc = "minimize"
    /\ ~init_given
    /\ n_teams >= 1
    /\ draws = 2 * n_teams
    /\ Len(init_vals) = 2 * n_teams + 2

TeamIndex(teams_, name) == CHOOSE k \in 1..Len(teams_) : teams_[k] = name

\* C13: on a valid dataset and a vector v of length 2n+2, an evaluation of
\* estimate_parameters completes with a number, the negated sum of one term per match
\* row: the term of row i is computed from that row's home and away score, with home
\* log-rate v[home] + v[n + away] + gamma and away log-rate v[away] + v[n + home],
\* rho = v[2n+1] and gamma = v[2n+2] entering the home rate only.
C13_ObjectiveSumsEveryRowOnce ==
    (nfev > 0 /\ DatasetValid /\ Len(x) = 2 * n_teams + 2) =>
        /\ fun.kind = "value"
        /\ exc = "none"
        /\ Len(fun.log_like) = Len(dataset)
        /\ \A i \in 1..Len(dataset) :
              LET h == TeamIndex(teams, dataset[i]["Home Team"])
                  a == TeamIndex(teams, dataset[i]["Away Team"])
                  n == n_teams
                  t == fun.log_like[i]
              IN  /\ t.x = dataset[i]["Home Score"]
                  /\ t.y = dataset[i]["Away Score"]
                  /\ t.log_lambda = x[h] + x[n + a] + x[2 * n + 2]
                  /\ t.log_mu = x[a] + x[n + h]
                  /\ t.rho = x[2 * n + 1]

====
